---- MODULE Spec2Model ----
(***************************************************************************)
(* Model of the notes router (app/routers/notes/notes.py) and of the       *)
(* user-exercise helpers (app/routers/user_exercise.py).                   *)
(*                                                                         *)
(* The two components share nothing but the storage layer and the clock,   *)
(* so each has its own next-state relation: SpecNotes and SpecUE.          *)
(***************************************************************************)
EXTENDS Integers, Sequences, FiniteSets, TLC

\* ---------------------------------------------------------------- bounds
MaxClock == 1      \* datetime.now() takes the values 0..MaxClock
MaxNotes == 2      \* notes inserted in one behaviour
MaxCalls == 3      \* create_user_exercise invocations in one behaviour

\* ---------------------------------------------------------------- inputs
Users  == {1, 2}                 \* user ids
Procs  == {"p1", "p2"}           \* requests that may run concurrently
Titles == {"t1", "t2"}
Descs  == {"d1", "d2"}
NoUser == 0                      \* Python None in a creator field
NoTime == -1                     \* Python None in a timestamp field
Missing == "<missing>"           \* a field the payload does not carry
NoteIds == 1..(MaxNotes + 1)     \* ids a client may ask for; the last is never assigned

VARIABLES
    now,         \* the wall clock read by datetime.now() and by storage
    ueRows,      \* table user_exercise, rows in insertion order
    proc,        \* per request: where it stands inside create_user_exercise
    calls,       \* invocations of create_user_exercise started so far
    writes,      \* history: per user id, the start_date each completed invocation wrote
    serial,      \* history: per user id, no two invocations overlapped and no storage call failed
    notes,       \* table notes, rows in insertion order
    nextId,      \* the id storage assigns to the next inserted note
    resp,        \* the response to the last notes request
    live,        \* history: ids answered as created and not since answered as deleted
    createdRec   \* history: per id, the record create_new_note returned, while not updated or deleted

ueVars    == <<ueRows, proc, calls, writes, serial>>
notesVars == <<notes, nextId, resp, live, createdRec>>
vars      == <<now, ueRows, proc, calls, writes, serial, notes, nextId, resp, live, createdRec>>

\* ------------------------------------------------------------------ clock
\* Wall-clock time passes between any two steps, or does not.
Tick ==
    /\ now < MaxClock
    /\ now' = now + 1
    /\ UNCHANGED <<ueVars, notesVars>>

\* ===================================================== user_exercise.py ==
Idle == [pc |-> "idle", user |-> 0, date |-> 0, target |-> 0,
         seen |-> 0, stored |-> 0, qfail |-> FALSE, branch |-> "none"]

Busy(p) == proc[p].pc \in {"check", "save", "update", "commit"}

\* session.query(UserExercise).filter_by(user_id=...)
UserRows(rows, user_id) == SelectSeq(rows, LAMBDA r : r.user_id = user_id)

\* A variant that filters on the primary key instead of the user_id column.
get_user_exercise_by_id(rows, user_id, fails) ==
    IF fails THEN <<>> ELSE SelectSeq(rows, LAMBDA r : r.id = user_id)

\* A variant whose except clause answers with what is stored instead of [].
get_user_exercise_unguarded(rows, user_id, fails) ==
    UserRows(rows, user_id)

\* get_user_exercise: the rows, or [] when the query raises SQLAlchemyError.
get_user_exercise(rows, user_id, fails) ==
    IF fails THEN <<>> ELSE UserRows(rows, user_id)

\* does_user_exercise_exist returns the list itself; the caller tests its truth.
does_user_exercise_exist(rows, user_id, fails) ==
    get_user_exercise(rows, user_id, fails)

\* Python truth value of a list
Truthy(list) == list # <<>>

\* utils.save(instance, session): session.add + session.commit
save(rows, user_id, start_date) ==
    Append(rows, [id |-> Len(rows) + 1, user_id |-> user_id, start_date |-> start_date])

\* A request enters create_user_exercise(session, user).
Call(p, u) ==
    /\ ~Busy(p)
    /\ calls < MaxCalls
    /\ calls' = calls + 1
    /\ proc' = [proc EXCEPT ![p] = [Idle EXCEPT !.pc = "check", !.user = u]]
    /\ serial' = [serial EXCEPT ![u] =
                    serial[u] /\ \A q \in Procs : ~(Busy(q) /\ proc[q].user = u)]
    /\ UNCHANGED <<now, ueRows, writes, notesVars>>

\* create_user_exercise, line 12 (and 13-16 on the create branch): the existence
\* check is one storage round trip; when it answers falsy the UserExercise object
\* is built with start_date = datetime.now().
create_user_exercise_check(p) ==
    /\ proc[p].pc = "check"
    /\ \E fails \in BOOLEAN :
         LET u     == proc[p].user
             found == does_user_exercise_exist(ueRows, u, fails)
         IN  /\ proc' = [proc EXCEPT ![p] =
                   [@ EXCEPT !.pc     = IF Truthy(found) THEN "update" ELSE "save",
                             !.branch = IF Truthy(found) THEN "update" ELSE "create",
                             !.date   = IF Truthy(found) THEN 0 ELSE now,
                             !.seen   = Len(found),
                             !.stored = Len(UserRows(ueRows, u)),
                             !.qfail  = fails]]
             /\ serial' = [serial EXCEPT ![u] = serial[u] /\ ~fails]
    /\ UNCHANGED <<now, ueRows, calls, writes, notesVars>>

\* A variant whose insert first looks for a row of the user and refreshes it.
create_user_exercise_save_upsert(p) ==
    /\ proc[p].pc = "save"
    /\ LET u == proc[p].user
       IN  /\ ueRows' = IF UserRows(ueRows, u) # <<>>
                        THEN [i \in DOMAIN ueRows |->
                                IF ueRows[i].user_id = u
                                THEN [ueRows[i] EXCEPT !.start_date = proc[p].date]
                                ELSE ueRows[i]]
                        ELSE save(ueRows, u, proc[p].date)
           /\ proc' = [proc EXCEPT ![p].pc = "done"]
           /\ writes' = [writes EXCEPT ![u] = Append(@, proc[p].date)]
    /\ UNCHANGED <<now, calls, serial, notesVars>>

\* create_user_exercise, line 17: save(user_exercise, session=session); a storage
\* failure leaves the table as it was and the exception ends the request.
create_user_exercise_save(p) ==
    /\ proc[p].pc = "save"
    /\ \E fails \in BOOLEAN :
         LET u == proc[p].user
         IN  IF fails
             THEN /\ proc' = [proc EXCEPT ![p].pc = "error"]
                  /\ serial' = [serial EXCEPT ![u] = FALSE]
                  /\ UNCHANGED <<ueRows, writes>>
             ELSE /\ ueRows' = save(ueRows, u, proc[p].date)
                  /\ proc' = [proc EXCEPT ![p].pc = "done"]
                  /\ writes' = [writes EXCEPT ![u] = Append(@, proc[p].date)]
                  /\ UNCHANGED serial
    /\ UNCHANGED <<now, calls, notesVars>>

\* update_user_exercise, lines 42-44: .first() of the user's rows, then the
\* in-memory assignment start_date = datetime.now(); None has no start_date.
update_user_exercise_query(p) ==
    /\ proc[p].pc = "update"
    /\ \E fails \in BOOLEAN :
         LET u     == proc[p].user
             found == UserRows(ueRows, u)
         IN  IF fails \/ found = <<>>
             THEN /\ proc' = [proc EXCEPT ![p].pc = "error"]
                  /\ serial' = [serial EXCEPT ![u] = FALSE]
             ELSE /\ proc' = [proc EXCEPT ![p] =
                        [@ EXCEPT !.pc = "commit", !.target = Head(found).id, !.date = now]]
                  /\ UNCHANGED serial
    /\ UNCHANGED <<now, ueRows, calls, writes, notesVars>>

\* update_user_exercise, line 45: session.commit() writes the row.
update_user_exercise_commit(p) ==
    /\ proc[p].pc = "commit"
    /\ \E fails \in BOOLEAN :
         LET u == proc[p].user
         IN  IF fails
             THEN /\ proc' = [proc EXCEPT ![p].pc = "error"]
                  /\ serial' = [serial EXCEPT ![u] = FALSE]
                  /\ UNCHANGED <<ueRows, writes>>
             ELSE /\ ueRows' = [i \in DOMAIN ueRows |->
                                  IF ueRows[i].id = proc[p].target
                                  THEN [ueRows[i] EXCEPT !.start_date = proc[p].date]
                                  ELSE ueRows[i]]
                  /\ proc' = [proc EXCEPT ![p].pc = "done"]
                  /\ writes' = [writes EXCEPT ![u] = Append(@, proc[p].date)]
                  /\ UNCHANGED serial
    /\ UNCHANGED <<now, calls, notesVars>>

NextUE ==
    \/ Tick
    \/ \E p \in Procs, u \in Users : Call(p, u)
    \/ \E p \in Procs : create_user_exercise_check(p)
    \/ \E p \in Procs : create_user_exercise_save(p)
    \/ \E p \in Procs : update_user_exercise_query(p)
    \/ \E p \in Procs : update_user_exercise_commit(p)

\* ------------------------------------------------------------------- Init
NoRequest == [title |-> Missing, description |-> Missing, creator |-> NoUser]

Init ==
    /\ now = 0
    /\ ueRows = <<>>
    /\ proc = [p \in Procs |-> Idle]
    /\ calls = 0
    /\ writes = [u \in Users |-> <<>>]
    /\ serial = [u \in Users |-> TRUE]
    /\ notes = <<>>
    /\ nextId = 1
    /\ resp = [op |-> "none", note_id |-> 0, status |-> 0, detail |-> <<>>,
               body |-> <<>>, request |-> NoRequest, current_user |-> NoUser]
    /\ live = {}
    /\ createdRec = [i \in NoteIds |-> <<>>]

SpecUE == Init /\ [][NextUE]_vars
\* ======================================================= notes/notes.py ==
\* What a request body or a submitted form may carry.
\* Complete ones with every creator value, and the incomplete ones of the tests:
\* {}, {"description": ...}, {"title": ...}.
Payloads ==
    [title : Titles, description : Descs, creator : Users \cup {NoUser}]
    \cup {[title |-> Missing, description |-> Missing, creator |-> NoUser],
          [title |-> Missing, description |-> "d1", creator |-> NoUser],
          [title |-> "t1", description |-> Missing, creator |-> NoUser]}

\* NoteSchema: title and description are required, creator is optional.
Valid(payload) == payload.title # Missing /\ payload.description # Missing

NoteIdsOf(rows) == {rows[i].id : i \in DOMAIN rows}

\* f"Note with id {note_id} not found"
NotFound(note_id) == <<"Note with id ", note_id, " not found">>

\* notes.view(session, note_id): the row, or None (here: no row at all).
view(rows, note_id) == SelectSeq(rows, LAMBDA r : r.id = note_id)

\* notes.get_all(session)
get_all(rows) == rows

Reply(op, note_id, status, detail, body, request, cu) ==
    resp' = [op |-> op, note_id |-> note_id, status |-> status, detail |-> detail,
             body |-> body, request |-> request, current_user |-> cu]

\* A request that ends without touching storage.
Answer(op, note_id, status, detail, body, request) ==
    /\ Reply(op, note_id, status, detail, body, request, NoUser)
    /\ UNCHANGED <<notes, nextId>>

\* notes.create_note(note, session): inserts the row, storage assigning id and
\* timestamp, and returns {"id": id, **dict(note)}, which has no timestamp.
create_note(op, request, note, cu, status, withBody) ==
    /\ nextId <= MaxNotes
    /\ notes' = Append(notes, [id |-> nextId, title |-> note.title,
                               description |-> note.description,
                               timestamp |-> now, creator |-> note.creator])
    /\ nextId' = nextId + 1
    /\ Reply(op, 0, status, <<>>,
             IF withBody
             THEN << [id |-> nextId, title |-> note.title,
                      description |-> note.description,
                      timestamp |-> NoTime, creator |-> note.creator] >>
             ELSE <<>>,
             request, cu)

\* notes.update(request, session, note_id): 404 when the note is absent, else
\* title and description are overwritten and committed.
update(op, request, note_id, status, withBody) ==
    IF view(notes, note_id) = <<>>
    THEN Answer(op, note_id, 404, NotFound(note_id), <<>>, request)
    ELSE /\ notes' = [i \in DOMAIN notes |->
                        IF notes[i].id = note_id
                        THEN [notes[i] EXCEPT !.title = request.title,
                                              !.description = request.description]
                        ELSE notes[i]]
         /\ UNCHANGED nextId
         /\ Reply(op, note_id, status, <<>>,
                  IF withBody THEN view(notes', note_id) ELSE <<>>, request, NoUser)

\* notes.delete(session, note_id): 404 when the note is absent, else the row is
\* removed and its data returned.
delete(op, note_id, status, withBody) ==
    IF view(notes, note_id) = <<>>
    THEN Answer(op, note_id, 404, NotFound(note_id), <<>>, NoRequest)
    ELSE /\ notes' = SelectSeq(notes, LAMBDA r : r.id # note_id)
         /\ UNCHANGED nextId
         /\ Reply(op, note_id, status, <<>>,
                  IF withBody THEN view(notes, note_id) ELSE <<>>, NoRequest, NoUser)

\* POST /notes/edit/{note_id}: the form is turned into a NoteSchema inside the
\* handler (a ValidationError raised there is no request-validation error and
\* leaves as the generic server error), then update_note runs, then 302.
redirect_update_note(form, note_id) ==
    IF ~Valid(form)
    THEN Answer("redirect_update_note", note_id, 500, <<"ValidationError">>, <<>>, form)
    ELSE update("redirect_update_note", form, note_id, 302, FALSE)

\* POST /notes/delete/{note_id}
redirect_delete_note(note_id) ==
    delete("redirect_delete_note", note_id, 302, FALSE)

\* POST /notes/add
create_note_by_form(form, cu) ==
    IF ~Valid(form)
    THEN Answer("create_note_by_form", 0, 500, <<"ValidationError">>, <<>>, form)
    ELSE create_note("create_note_by_form", form, [form EXCEPT !.creator = cu],
                     cu, 302, FALSE)

\* A variant that stores the creator the client sent.
create_new_note_client_creator(request, cu) ==
    IF ~Valid(request)
    THEN Answer("create_new_note", 0, 422, <<"validation">>, <<>>, request)
    ELSE create_note("create_new_note", request, request, cu, 201, TRUE)

\* POST /notes/: the body is validated against NoteSchema before the handler
\* runs (422); the handler overwrites creator with get_current_user(session).
create_new_note(request, cu) ==
    IF ~Valid(request)
    THEN Answer("create_new_note", 0, 422, <<"validation">>, <<>>, request)
    ELSE create_note("create_new_note", request, [request EXCEPT !.creator = cu],
                     cu, 201, TRUE)

\* A variant that only looks the note up, as read_note does.
delete_note_views(note_id) ==
    IF view(notes, note_id) = <<>>
    THEN Answer("delete_note", note_id, 404, NotFound(note_id), <<>>, NoRequest)
    ELSE Answer("delete_note", note_id, 200, <<>>, view(notes, note_id), NoRequest)

\* DELETE /notes/{note_id}/
delete_note(note_id) ==
    delete("delete_note", note_id, 200, TRUE)

\* A variant that looks the note up before the body is validated.
update_note_lookup_first(request, note_id) ==
    IF view(notes, note_id) = <<>>
    THEN Answer("update_note", note_id, 404, NotFound(note_id), <<>>, request)
    ELSE IF ~Valid(request)
         THEN Answer("update_note", note_id, 422, <<"validation">>, <<>>, request)
         ELSE update("update_note", request, note_id, 202, TRUE)

\* A variant that hands the whole request, creator included, to the row.
update_note_whole_request(request, note_id) ==
    IF ~Valid(request)
    THEN Answer("update_note", note_id, 422, <<"validation">>, <<>>, request)
    ELSE IF view(notes, note_id) = <<>>
         THEN Answer("update_note", note_id, 404, NotFound(note_id), <<>>, request)
         ELSE /\ notes' = [i \in DOMAIN notes |->
                             IF notes[i].id = note_id
                             THEN [notes[i] EXCEPT !.title = request.title,
                                                   !.description = request.description,
                                                   !.creator = request.creator]
                             ELSE notes[i]]
              /\ UNCHANGED nextId
              /\ Reply("update_note", note_id, 202, <<>>, view(notes', note_id),
                       request, NoUser)

\* PUT /notes/{note_id}/: the body is validated against NoteSchema before the
\* handler runs (422); the handler calls notes.update.
update_note(request, note_id) ==
    IF ~Valid(request)
    THEN Answer("update_note", note_id, 422, <<"validation">>, <<>>, request)
    ELSE update("update_note", request, note_id, 202, TRUE)

\* GET /notes/view/{note_id}: renders the note, or None.
view_note(note_id) ==
    Answer("view_note", note_id, 200, <<>>, view(notes, note_id), NoRequest)

\* GET /notes/delete/{note_id}: renders the note, or None.
remove_note(note_id) ==
    Answer("remove_note", note_id, 200, <<>>, view(notes, note_id), NoRequest)

\* GET /notes/add
create_note_form ==
    Answer("create_note_form", 0, 200, <<>>, <<>>, NoRequest)

\* GET /notes/all
get_all_notes ==
    Answer("get_all_notes", 0, 200, <<>>, get_all(notes), NoRequest)

\* A variant without the "if not note" test.
read_note_unchecked(note_id) ==
    Answer("read_note", note_id, 200, <<>>, view(notes, note_id), NoRequest)

\* A variant that reads the row the table holds at position note_id.
read_note_by_position(note_id) ==
    IF note_id \notin DOMAIN notes
    THEN Answer("read_note", note_id, 404, NotFound(note_id), <<>>, NoRequest)
    ELSE Answer("read_note", note_id, 200, <<>>, <<notes[note_id]>>, NoRequest)

\* GET /notes/{note_id}/
read_note(note_id) ==
    LET note == view(notes, note_id)
    IN  IF note = <<>>
        THEN Answer("read_note", note_id, 404, NotFound(note_id), <<>>, NoRequest)
        ELSE Answer("read_note", note_id, 200, <<>>, note, NoRequest)

\* GET /notes/
view_notes ==
    Answer("view_notes", 0, 200, <<>>, get_all(notes), NoRequest)

\* The history of what clients were told, kept from the responses alone.
Observe ==
    /\ live' =
         IF resp'.op \in {"create_new_note", "create_note_by_form"}
               /\ resp'.status \in {201, 302}
         THEN live \cup {nextId}
         ELSE IF resp'.op \in {"delete_note", "redirect_delete_note"}
                    /\ resp'.status \in {200, 302}
              THEN live \ {resp'.note_id}
              ELSE live
    /\ createdRec' =
         IF resp'.op = "create_new_note" /\ resp'.status = 201
         THEN [createdRec EXCEPT ![resp'.body[1].id] = resp'.body]
         ELSE IF resp'.op \in {"delete_note", "redirect_delete_note",
                               "update_note", "redirect_update_note"}
                    /\ resp'.status \in {200, 202, 302}
              THEN [createdRec EXCEPT ![resp'.note_id] = <<>>]
              ELSE createdRec
    /\ UNCHANGED <<now, ueVars>>

NextNotes ==
    \/ Tick
    \/ \E form \in Payloads, id \in NoteIds : redirect_update_note(form, id) /\ Observe
    \/ \E id \in NoteIds : redirect_delete_note(id) /\ Observe
    \/ \E form \in Payloads, cu \in Users : create_note_by_form(form, cu) /\ Observe
    \/ \E request \in Payloads, cu \in Users : create_new_note(request, cu) /\ Observe
    \/ \E id \in NoteIds : delete_note(id) /\ Observe
    \/ \E request \in Payloads, id \in NoteIds : update_note(request, id) /\ Observe
    \/ \E id \in NoteIds : view_note(id) /\ Observe
    \/ \E id \in NoteIds : remove_note(id) /\ Observe
    \/ create_note_form /\ Observe
    \/ get_all_notes /\ Observe
    \/ \E id \in NoteIds : read_note(id) /\ Observe
    \/ view_notes /\ Observe

SpecNotes == Init /\ [][NextNotes]_vars

Next == NextUE \/ NextNotes
Spec == Init /\ [][Next]_vars

\* ==================================================== claims (SpecNotes) ==

\* A step taken by a notes request (a clock tick leaves all of these alone).
NotesStep == notesVars' # notesVars

\* C1, the step: a Read, a Delete or an Update with a complete payload, asked
\* for an id that storage does not hold, answers 404 with a message that
\* carries that id, and storage is as before.
C1_Step ==
    ( /\ NotesStep
      /\ resp'.op \in {"read_note", "update_note", "delete_note"}
      /\ resp'.note_id \notin NoteIdsOf(notes)
      /\ resp'.op = "update_note" => Valid(resp'.request) )
    => /\ resp'.status = 404
       /\ resp'.detail = NotFound(resp'.note_id)
       /\ resp'.detail[2] = resp'.note_id
       /\ notes' = notes
       /\ nextId' = nextId

\* C1: for every id not in storage, GET, PUT (complete payload) and DELETE on
\* /notes/{id}/ end in 404 with the id in the message, storage unchanged.
C1_AbsentIdIsNotFound == [][C1_Step]_vars

\* A Read of an id that was assigned once and has been deleted, storage not empty.
C1_Witness ==
    /\ resp.op = "read_note"
    /\ resp.status = 404
    /\ resp.detail = NotFound(resp.note_id)
    /\ resp.note_id < nextId
    /\ notes # <<>>

\* C2: after a Create with a valid title and description, through the JSON
\* endpoint or the form endpoint, the persisted note's creator is the user
\* get_current_user resolved, whatever creator the payload carried.
C2_CreatorIsCurrentUser ==
    (resp.op \in {"create_new_note", "create_note_by_form"} /\ resp.status \in {201, 302})
    => /\ notes # <<>>
       /\ notes[Len(notes)].id = nextId - 1
       /\ notes[Len(notes)].creator = resp.current_user
       /\ resp.current_user \in Users
       /\ resp.op = "create_new_note" => resp.body[1].creator = resp.current_user

\* The payload named another user as creator.
C2_Witness ==
    /\ resp.op = "create_new_note"
    /\ resp.status = 201
    /\ resp.request.creator \in Users
    /\ resp.request.creator # resp.current_user
    /\ notes[Len(notes)].creator = resp.current_user

\* C3, the step: an Update whose payload lacks title or description is turned
\* down for its payload, whether the id exists or not, and writes nothing; the
\* PUT endpoint answers 422, never 404.
C3_Step ==
    ( /\ NotesStep
      /\ resp'.op \in {"update_note", "redirect_update_note"}
      /\ ~Valid(resp'.request) )
    => /\ notes' = notes
       /\ nextId' = nextId
       /\ resp'.status \notin {202, 302, 404}
       /\ resp'.op = "update_note" => resp'.status = 422

C6_ListInv ==
    resp.op = "get_all_notes" =>
        /\ resp.status = 200
        /\ NoteIdsOf(resp.body) = live
        /\ Len(resp.body) = Cardinality(live)
        /\ resp.body = notes

\* C6, Delete: a successful Delete(id) removes the row with that id and no
\* other, and returns that row's data.
C6_DeleteStep ==
    (NotesStep /\ resp'.op = "delete_note" /\ resp'.status = 200)
    => /\ view(notes, resp'.note_id) # <<>>
       /\ resp'.body = view(notes, resp'.note_id)
       /\ notes' = SelectSeq(notes, LAMBDA r : r.id # resp'.note_id)
       /\ Len(notes') = Len(notes) - 1

\* C6: after any sequence of Create and Delete, List returns exactly the notes
\* created and not deleted; a successful Delete removes only its row and
\* returns the deleted note's data.
C6_ListIsCreatedMinusDeleted == []C6_ListInv /\ [][C6_DeleteStep]_vars

\* Notes 1 and 2 were created, 1 was deleted, List returns only 2.
C6_Witness ==
    /\ resp.op = "get_all_notes"
    /\ live = {2}
    /\ NoteIdsOf(resp.body) = {2}
    /\ nextId = 3

\* C7: a note created through POST /notes/ and read back by the id Create
\* returned, with no Update or Delete of that id in between, has the title,
\* description and creator of the record Create returned.
C7_RoundTrip ==
    (resp.op = "read_note" /\ createdRec[resp.note_id] # <<>>)
    => /\ resp.status = 200
       /\ Len(resp.body) = 1
       /\ resp.body[1].id = resp.note_id
       /\ resp.body[1].title = createdRec[resp.note_id][1].title
       /\ resp.body[1].description = createdRec[resp.note_id][1].description
       /\ resp.body[1].creator = createdRec[resp.note_id][1].creator

\* The second of two stored notes is read back; its timestamp is storage's,
\* not the one of the record Create returned.
C7_Witness ==
    /\ resp.op = "read_note"
    /\ resp.status = 200
    /\ resp.note_id = 2
    /\ createdRec[2] # <<>>
    /\ resp.body[1].timestamp # createdRec[2][1].timestamp
    /\ Len(notes) = 2

\* C8, the step: a successful Update leaves the number of rows, every row's id,
\* creator and timestamp, and every other row as they were; the row asked for
\* takes the payload's title and description.
C8_Step ==
    ( /\ NotesStep
      /\ resp'.op \in {"update_note", "redirect_update_note"}
      /\ resp'.status \in {202, 302} )
    => /\ Len(notes') = Len(notes)
       /\ nextId' = nextId
       /\ resp'.note_id \in NoteIdsOf(notes)
       /\ \A i \in DOMAIN notes :
            /\ notes'[i].id = notes[i].id
            /\ notes'[i].creator = notes[i].creator
            /\ notes'[i].timestamp = notes[i].timestamp
            /\ notes[i].id # resp'.note_id => notes'[i] = notes[i]
            /\ notes[i].id = resp'.note_id =>
                 /\ notes'[i].title = resp'.request.title
                 /\ notes'[i].description = resp'.request.description

\* C8: a successful Update changes only that note's title and description.
C8_UpdateFrame == [][C8_Step]_vars

\* An Update whose payload named another creator went through, two notes stored.
C8_Witness ==
    /\ resp.op = "update_note"
    /\ resp.status = 202
    /\ resp.request.creator \in Users
    /\ resp.body[1].creator # resp.request.creator
    /\ resp.body[1].title = resp.request.title
    /\ Len(notes) = 2

\* ======================================================= claims (SpecUE) ==

\* C4 (as amended): when create_user_exercise runs two or more times for a user
\* id, one invocation at a time and with no storage failure, storage holds
\* exactly one row for that user id, the row carries the start_date of the last
\* invocation, and each invocation's start_date is not earlier than the one
\* before it (it is equal when the clock did not advance between the two reads).
C4_OneRecordNotEarlier ==
    \A u \in Users :
        (serial[u] /\ Len(writes[u]) >= 2) =>
            /\ Len(UserRows(ueRows, u)) = 1
            /\ UserRows(ueRows, u)[1].start_date = writes[u][Len(writes[u])]
            /\ \A i \in 1..(Len(writes[u]) - 1) : writes[u][i + 1] >= writes[u][i]

\* C4 as stated: every later start_date is strictly later than the preceding one.
C4_StrictlyLater ==
    \A u \in Users :
        (serial[u] /\ Len(writes[u]) >= 2) =>
            /\ Len(UserRows(ueRows, u)) = 1
            /\ \A i \in 1..(Len(writes[u]) - 1) : writes[u][i + 1] > writes[u][i]

\* Two serial invocations for one user have completed, the second one later.
C4_Witness ==
    \E u \in Users :
        /\ serial[u]
        /\ Len(writes[u]) >= 2
        /\ writes[u][2] > writes[u][1]

\* C5: two requests for the same user id that both ran the existence check
\* before either inserted (both saw no row, neither query failed) both take the
\* create branch, and once both have saved, storage holds two rows for that
\* user id: nothing between check and insert excludes it.
C5_RaceDuplicates ==
    \A p, q \in Procs :
        ( /\ p # q
          /\ proc[p].user = proc[q].user
          /\ proc[p].pc \in {"save", "done"} /\ proc[q].pc \in {"save", "done"}
          /\ proc[p].stored = 0 /\ proc[q].stored = 0
          /\ ~proc[p].qfail /\ ~proc[q].qfail )
        => /\ proc[p].branch = "create" /\ proc[q].branch = "create"
           /\ (proc[p].pc = "done" /\ proc[q].pc = "done")
                 => Len(UserRows(ueRows, proc[p].user)) >= 2

\* Both racing requests have saved: two rows for one user id.
C5_Witness ==
    \E p, q \in Procs :
        /\ p # q
        /\ proc[p].user = proc[q].user
        /\ proc[p].pc = "done" /\ proc[q].pc = "done"
        /\ proc[p].stored = 0 /\ proc[q].stored = 0
        /\ ~proc[p].qfail /\ ~proc[q].qfail
        /\ Len(UserRows(ueRows, proc[p].user)) = 2

\* C9: when the query inside the existence check fails, the check answers with
\* an empty (falsy) result whatever is stored, and the failure does not end the
\* request: it goes on into the create branch.
C9_FailureReadsAsAbsent ==
    \A p \in Procs :
        (proc[p].pc # "idle" /\ proc[p].pc # "check" /\ proc[p].qfail) =>
            /\ proc[p].seen = 0
            /\ proc[p].branch = "create"

\* The query failed while a row of the user was stored.
C9_Witness ==
    \E p \in Procs :
        /\ proc[p].pc = "save"
        /\ proc[p].qfail
        /\ proc[p].stored >= 1
        /\ proc[p].seen = 0

\* C10, the branch: a request whose existence query failed while the user id
\* had a row is on the create branch, and once it is done the user id has more
\* rows than it had.
C10_Branch ==
    \A p \in Procs :
        (proc[p].pc \notin {"idle", "check"} /\ proc[p].qfail /\ proc[p].stored >= 1)
        => /\ proc[p].branch = "create"
           /\ proc[p].pc = "done" =>
                 Len(UserRows(ueRows, proc[p].user)) >= proc[p].stored + 1

\* C10, the step: the save of a request whose existence query failed while the
\* user id had a row appends one more row for that user id and leaves every
\* existing row, start_date included, as it was.
C10_SaveStep ==
    \A p \in Procs :
        ( /\ proc[p].pc = "save" /\ proc'[p].pc = "done"
          /\ proc[p].qfail /\ proc[p].stored >= 1 )
        => /\ Len(ueRows') = Len(ueRows) + 1
           /\ SubSeq(ueRows', 1, Len(ueRows)) = ueRows
           /\ ueRows'[Len(ueRows')].user_id = proc[p].user
           /\ Len(UserRows(ueRows', proc[p].user)) >= 2

\* C10: a single invocation whose existence query fails for a user id that has
\* a row takes the create branch and, its save succeeding, inserts a second row
\* for that user id without refreshing the existing one.
C10_FailedCheckDuplicates == []C10_Branch /\ [][C10_SaveStep]_vars

\* One request, with no other request under way, has added a second row for a
\* user id whose first row keeps its earlier start_date.
C10_Witness ==
    \E p \in Procs :
        /\ proc[p].pc = "done"
        /\ proc[p].qfail
        /\ proc[p].stored = 1
        /\ proc[p].branch = "create"
        /\ \A q \in Procs : q # p => proc[q].pc = "idle"
        /\ Len(UserRows(ueRows, proc[p].user)) = 2
        /\ UserRows(ueRows, proc[p].user)[1].start_date
             < UserRows(ueRows, proc[p].user)[2].start_date
====
